---- MODULE Spec2Model ----
(***************************************************************************)
(* Domovra add-on: the lot store and the status classifier (db.py), the    *)
(* merge-or-create helper (main.py), the /lot and /location routes and the *)
(* JSON consumption endpoints (routes/), modelled over the SQLite tables   *)
(* created by init_db.                                                     *)
(*                                                                         *)
(* Encodings.  REAL quantities are integers.  TEXT dates are the integers  *)
(* 1..MaxDate (ISO dates compare as strings exactly as these compare as    *)
(* numbers); Python None / SQL NULL in a date column is None, the empty    *)
(* string is EmptyStr.  Product and location names are the integers        *)
(* 1..MaxName, in alphabetical order.                                      *)
(***************************************************************************)
EXTENDS Integers, Sequences, FiniteSets, TLC

\* ---------------------------------------------------------------- bounds
MaxLots == 2
MaxMovements == 3
MaxQty == 2
MaxDate == 2
MaxProducts == 2
MaxLocations == 2
MaxName == 2
MaxDays == 3

\* ------------------------------------------------------------- encodings
None == 0 - 1
EmptyStr == 0
NULL == "NULL"
\* a string that is neither empty nor a date nor a number
Malformed == 0 - 2
\* a date string whose day passes the end of its month ("2026-11-31"):
\* the day before date 1 plus one
Rollover == 0 - 3
\* what a failed date.fromisoformat stands for
ValueError == 0 - 4

Dates == 1..MaxDate
DateInputs == {None, EmptyStr} \cup Dates
NullInputs == {None, EmptyStr}
FrozenInputs == {None, EmptyStr, 1}
QtyInputs == 0..MaxQty
PositiveQty == 1..MaxQty
\* ids a caller may name: the first product (location) once it is created,
\* and a second one that exists in few states or in none
ProductIdInputs == {1, 2}
LocationIdInputs == {1, 2}
ApiIdInputs == {0, 1, 2}
LotIdInputs == 1..MaxLots
Names == 1..MaxName
Barcodes == {None, 1}
Flags == {0, 1}
\* best_before values handed to status_for: a stock_lots.best_before column
\* (TEXT, never validated) and dates up to MaxDays + 1 days after any today
StatusInputs == {None, EmptyStr, Malformed} \cup (1..(MaxDate + MaxDays + 1))
\* (WARNING_DAYS, CRITICAL_DAYS) as settings_store coerces them:
\* 0 <= critical <= warning
Thresholds == {t \in (0..MaxDays) \X (0..MaxDays) : t[2] <= t[1]}
\* a retention key of settings.json or of a payload: missing (None), not an
\* integer, or an integer
SettingInputs == {None, Malformed, 1, MaxDays}
\* WARNING_DAYS, CRITICAL_DAYS of the environment: unset (None) or an
\* integer
EnvInputs == {None, 1, MaxDays}
\* settings.json as the process finds it when it starts
Absent == [exists |-> FALSE]
Corrupt == [exists |-> TRUE]
FileInputs ==
    {Absent, Corrupt} \cup
    [retention_days_warning : SettingInputs,
     retention_days_critical : SettingInputs, legacy : BOOLEAN]
PayloadInputs ==
    [retention_days_warning : SettingInputs,
     retention_days_critical : SettingInputs]
\* the move_to form field of /location/delete
MoveToInputs == {EmptyStr, Malformed} \cup LocationIdInputs

\* request handlers that may run at the same time (uvicorn's thread pool)
Conns == {1, 2}

\* Tables created by init_db.
Tables == {"locations", "products", "stock_lots", "movements"}

VARIABLES
    products,     \* table products:   id -> [name, barcode]
    locations,    \* table locations:  id -> [name, is_freezer]
    stock_lots,   \* table stock_lots: id -> [product_id, location_id, qty, frozen_on, best_before]
    movements,    \* table movements, in id order: <<[lot_id, type, qty, ts, note]>>
    seq,          \* sqlite_sequence: last AUTOINCREMENT id handed out per table
    lot_product,  \* history: product_id each stock_lots id was inserted with
    conn,         \* per request handler: its sqlite3 connection inside a db call
    settings_json,\* /data/settings.json: Absent, Corrupt or its retention keys
    os_env,       \* the process environment: WARNING_DAYS, CRITICAL_DAYS, and
                  \* whether /data can be created and written
    config,       \* module config: the constants WARNING_DAYS, CRITICAL_DAYS
    today,        \* the current date
    last          \* the last call: its name, what it read and what it returned

vars == <<products, locations, stock_lots, movements, seq, lot_product, conn,
          settings_json, os_env, config, today, last>>

\* what no db.py call writes
ambient == <<settings_json, os_env, config, today>>

\* ------------------------------------------------------------- helpers
Max(a, b) == IF a >= b THEN a ELSE b
Min(a, b) == IF a <= b THEN a ELSE b

RECURSIVE SumSeq(_)
SumSeq(s) == IF s = <<>> THEN 0 ELSE Head(s) + SumSeq(Tail(s))

RECURSIVE SumOver(_, _)
SumOver(f, S) ==
    IF S = {} THEN 0
    ELSE LET x == CHOOSE y \in S : TRUE IN f[x] + SumOver(f, S \ {x})

\* Python's `x or None` on an optional string.
OrNone(x) == IF x = EmptyStr THEN None ELSE x

\* A failed `INSERT OR ...` leaves the database as it was.
UnchangedDb ==
    UNCHANGED <<products, locations, stock_lots, movements, seq, lot_product,
                conn, ambient>>

Init ==
    /\ products = <<>>
    /\ locations = <<>>
    /\ stock_lots = <<>>
    /\ movements = <<>>
    /\ seq = [products |-> 0, locations |-> 0, stock_lots |-> 0]
    /\ lot_product = <<>>
    /\ conn = [c \in Conns |-> [pc |-> "closed"]]
    /\ settings_json = [retention_days_warning |-> 30,
                        retention_days_critical |-> 14, legacy |-> FALSE]
    /\ os_env = [data_ok |-> TRUE, WARNING_DAYS |-> None, CRITICAL_DAYS |-> None]
    /\ config = [WARNING_DAYS |-> 30, CRITICAL_DAYS |-> 14]
    /\ today = 1
    /\ last = [op |-> "init_db"]

\* ------------------------------------------------------------- catalog
add_location(name, is_freezer) ==
    IF \E i \in DOMAIN locations : locations[i].name = name
    THEN /\ last' = [op |-> "add_location",
                     ret |-> CHOOSE i \in DOMAIN locations : locations[i].name = name]
         /\ UnchangedDb
    ELSE /\ seq.locations < MaxLocations
         /\ LET id == seq.locations + 1 IN
            /\ locations' = locations @@ (id :> [name |-> name, is_freezer |-> is_freezer])
            /\ seq' = [seq EXCEPT !.locations = id]
            /\ last' = [op |-> "add_location", ret |-> id]
         /\ UNCHANGED <<products, stock_lots, movements, lot_product, conn, ambient>>

\* except sqlite3.IntegrityError: the row of that barcode first
existing_product_barcode_first(nameClash, codeClash) ==
    IF codeClash # {} THEN CHOOSE i \in codeClash : TRUE
    ELSE CHOOSE i \in nameClash : TRUE

\* except sqlite3.IntegrityError: the row of that name, else the row of
\* that barcode
existing_product(nameClash, codeClash) ==
    IF nameClash # {} THEN CHOOSE i \in nameClash : TRUE
    ELSE CHOOSE i \in codeClash : TRUE

add_product(name, barcode) ==
    LET code == OrNone(barcode)
        nameClash == {i \in DOMAIN products : products[i].name = name}
        codeClash == {i \in DOMAIN products :
                         code # None /\ products[i].barcode = code}
    IN
    IF nameClash = {} /\ codeClash = {}
    THEN /\ seq.products < MaxProducts
         /\ LET id == seq.products + 1 IN
            /\ products' = products @@ (id :> [name |-> name, barcode |-> code])
            /\ seq' = [seq EXCEPT !.products = id]
            /\ last' = [op |-> "add_product", name |-> name,
                        barcode |-> barcode, ret |-> id]
         /\ UNCHANGED <<locations, stock_lots, movements, lot_product, conn, ambient>>
    ELSE /\ last' = [op |-> "add_product", name |-> name, barcode |-> barcode,
                     ret |-> existing_product(nameClash, codeClash)]
         /\ UnchangedDb

\* UPDATE stock_lots SET location_id=dest WHERE location_id=src; nothing when
\* src = dest
move_lots_from_location(lots, src_location_id, dest_location_id) ==
    [i \in DOMAIN lots |->
        IF lots[i].location_id = src_location_id
        THEN [lots[i] EXCEPT !.location_id = dest_location_id]
        ELSE lots[i]]

\* POST /location/delete: the optional move, then delete_location
location_delete(location_id, move_to) ==
    LET src_is_freezer == IF location_id \in DOMAIN locations
                          THEN locations[location_id].is_freezer ELSE 0
        \* int(move_to_id) raises on a malformed id: logged, no move
        asked == move_to # EmptyStr /\ move_to # Malformed
        dest_is_freezer == IF move_to \in DOMAIN locations
                           THEN locations[move_to].is_freezer ELSE 0
        move_invalid == asked /\ src_is_freezer # dest_is_freezer
        lots == IF asked /\ ~move_invalid
                THEN move_lots_from_location(stock_lots, location_id, move_to)
                ELSE stock_lots
        \* delete_location: the lots still in the location, their movements,
        \* the location
        lot_ids == {i \in DOMAIN lots : lots[i].location_id = location_id}
    IN
    /\ movements' = SelectSeq(movements, LAMBDA m : m.lot_id \notin lot_ids)
    /\ stock_lots' = [i \in DOMAIN lots \ lot_ids |-> lots[i]]
    /\ locations' = [i \in DOMAIN locations \ {location_id} |-> locations[i]]
    /\ last' = [op |-> "location_delete", location_id |-> location_id,
                 move_to |-> move_to, move_invalid |-> move_invalid]
    /\ UNCHANGED <<products, seq, lot_product, conn, ambient>>

\* ---------------------------------------------------------------- lots
\* the movement row written next to the INSERT INTO stock_lots
in_movement_out(lot_id, qty) ==
    [lot_id |-> lot_id, type |-> "OUT", qty |-> qty, ts |-> today, note |-> NULL]

in_movement(lot_id, qty) ==
    [lot_id |-> lot_id, type |-> "IN", qty |-> qty, ts |-> today, note |-> NULL]

\* INSERT INTO stock_lots ... ; INSERT INTO movements ... 'IN' ; commit
add_lot_sql(product_id, location_id, qty, frozen_on, best_before) ==
    /\ seq.stock_lots < MaxLots
    /\ Len(movements) < MaxMovements
    /\ LET lot_id == seq.stock_lots + 1 IN
       /\ stock_lots' = stock_lots @@
              (lot_id :> [product_id |-> product_id, location_id |-> location_id,
                          qty |-> qty, frozen_on |-> frozen_on,
                          best_before |-> best_before])
       /\ movements' = Append(movements, in_movement(lot_id, qty))
       /\ seq' = [seq EXCEPT !.stock_lots = lot_id]
       /\ lot_product' = lot_product @@ (lot_id :> product_id)

add_lot(product_id, location_id, qty, frozen_on, best_before) ==
    /\ add_lot_sql(product_id, location_id, qty, frozen_on, best_before)
    /\ last' = [op |-> "add_lot", product_id |-> product_id,
                 location_id |-> location_id, qty |-> qty,
                 ret |-> seq.stock_lots + 1]
    /\ UNCHANGED <<products, locations, conn, ambient>>

\* the same two INSERTs, the lot row with the purchase columns
add_lot_purchase(product_id, location_id, qty_total, frozen_on, best_before) ==
    /\ add_lot_sql(product_id, location_id, qty_total, frozen_on, best_before)
    /\ last' = [op |-> "add_lot_purchase", product_id |-> product_id,
                 location_id |-> location_id, qty |-> qty_total,
                 ret |-> seq.stock_lots + 1]
    /\ UNCHANGED <<products, locations, conn, ambient>>

\* UPDATE stock_lots SET qty, location_id, frozen_on, best_before WHERE id
update_lot_sql(lot_id, qty, location_id, frozen_on, best_before) ==
    /\ stock_lots' =
          IF lot_id \in DOMAIN stock_lots
          THEN [stock_lots EXCEPT ![lot_id] =
                   [product_id |-> @.product_id, location_id |-> location_id,
                    qty |-> qty, frozen_on |-> frozen_on,
                    best_before |-> best_before]]
          ELSE stock_lots
    /\ UNCHANGED <<movements, seq, lot_product, ambient>>

update_lot(lot_id, qty, location_id, frozen_on, best_before) ==
    /\ update_lot_sql(lot_id, qty, location_id, frozen_on, best_before)
    /\ last' = [op |-> "update_lot", lot_id |-> lot_id, location_id |-> location_id]
    /\ UNCHANGED <<products, locations, conn, ambient>>

\* new_qty <= 0 decides between DELETE and UPDATE
lot_is_emptied_lt(new_qty) == new_qty < 0

lot_is_emptied(new_qty) == new_qty <= 0

\* the OUT row written next to the DELETE
out_movement_delete_req(lot_id, row_qty, qty) ==
    [lot_id |-> lot_id, type |-> "OUT", qty |-> qty, ts |-> today, note |-> "delete lot"]

out_movement_delete(lot_id, row_qty, qty) ==
    [lot_id |-> lot_id, type |-> "OUT", qty |-> row_qty, ts |-> today, note |-> "delete lot"]

\* the OUT row written next to the UPDATE
out_movement_update_rest(lot_id, row_qty, qty) ==
    [lot_id |-> lot_id, type |-> "OUT", qty |-> row_qty - qty, ts |-> today, note |-> NULL]

out_movement_update(lot_id, row_qty, qty) ==
    [lot_id |-> lot_id, type |-> "OUT", qty |-> qty, ts |-> today, note |-> NULL]

consume_lot(lot_id, qty) ==
    IF lot_id \notin DOMAIN stock_lots
    THEN /\ last' = [op |-> "consume_lot", row |-> None]
         /\ UnchangedDb
    ELSE /\ Len(movements) < MaxMovements
         /\ LET row == stock_lots[lot_id]
                new_qty == row.qty - qty
            IN
            /\ IF lot_is_emptied(new_qty)
               THEN /\ stock_lots' = [i \in DOMAIN stock_lots \ {lot_id} |-> stock_lots[i]]
                    /\ movements' = Append(movements,
                                           out_movement_delete(lot_id, row.qty, qty))
               ELSE /\ stock_lots' = [stock_lots EXCEPT ![lot_id].qty = new_qty]
                    /\ movements' = Append(movements,
                                           out_movement_update(lot_id, row.qty, qty))
         /\ last' = [op |-> "consume_lot", lot_id |-> lot_id, qty |-> qty,
                     row |-> stock_lots[lot_id].qty]
         /\ UNCHANGED <<products, locations, seq, lot_product, conn, ambient>>

\* POST /lot/consume: float(qty) goes to consume_lot as it comes
lot_consume_action(lot_id, qty) == consume_lot(lot_id, qty)

\* DELETE FROM movements WHERE lot_id IN (lot_ids)
movements_without_none(lot_ids) == movements

movements_without(lot_ids) ==
    SelectSeq(movements, LAMBDA m : m.lot_id \notin lot_ids)

\* DELETE FROM stock_lots WHERE id IN (lot_ids)
stock_lots_without(lot_ids) ==
    [i \in DOMAIN stock_lots \ lot_ids |-> stock_lots[i]]

delete_lot(lot_id) ==
    /\ movements' = movements_without({lot_id})
    /\ stock_lots' = stock_lots_without({lot_id})
    /\ last' = [op |-> "delete_lot", lot_id |-> lot_id,
                 row |-> IF lot_id \in DOMAIN stock_lots
                         THEN stock_lots[lot_id].qty ELSE None,
                 removed |-> Len(movements) - Len(movements')]
    /\ UNCHANGED <<products, locations, seq, lot_product, conn, ambient>>

delete_product(product_id) ==
    LET lot_ids == {i \in DOMAIN stock_lots : stock_lots[i].product_id = product_id}
    IN
    /\ movements' = movements_without(lot_ids)
    /\ stock_lots' = stock_lots_without(lot_ids)
    /\ products' = [i \in DOMAIN products \ {product_id} |-> products[i]]
    /\ last' = [op |-> "delete_product", product_id |-> product_id]
    /\ UNCHANGED <<locations, seq, lot_product, conn, ambient>>

\* ------------------------------------------- the db calls, statement by statement
\* _conn() opens a connection with sqlite3's default isolation level: the
\* first INSERT/UPDATE/DELETE begins a transaction and takes the write lock,
\* c.commit() publishes it; a process that dies before the commit leaves a
\* journal that SQLite rolls back.
Db == [stock_lots |-> stock_lots, movements |-> movements, seq |-> seq,
       lot_product |-> lot_product]

\* what the other connections read after a statement of an open transaction
visible_autocommit(committed, own) == own

visible(committed, own) == committed

Publish(d) ==
    /\ stock_lots' = d.stock_lots
    /\ movements' = d.movements
    /\ seq' = d.seq
    /\ lot_product' = d.lot_product

write_lock_free == \A c \in Conns : conn[c].pc \notin {"movement", "commit"}

\* add_lot / add_lot_purchase: INSERT INTO stock_lots
add_lot_insert(c, op, product_id, location_id, qty, frozen_on, best_before) ==
    /\ conn[c].pc = "closed"
    /\ write_lock_free
    /\ seq.stock_lots < MaxLots
    /\ Len(movements) < MaxMovements
    /\ LET lot_id == seq.stock_lots + 1
           d == [Db EXCEPT
                   !.stock_lots = @ @@
                      (lot_id :> [product_id |-> product_id,
                                  location_id |-> location_id, qty |-> qty,
                                  frozen_on |-> frozen_on,
                                  best_before |-> best_before]),
                   !.seq = [@ EXCEPT !.stock_lots = lot_id],
                   !.lot_product = (lot_id :> product_id) @@ @]
       IN /\ conn' = [conn EXCEPT ![c] =
                        [pc |-> "movement", op |-> op, lot_id |-> lot_id,
                         qty |-> qty, row |-> None, db |-> d]]
          /\ Publish(visible(Db, d))
    /\ UNCHANGED <<products, locations, last, ambient>>

\* consume_lot: SELECT qty FROM stock_lots WHERE id=?
consume_lot_select(c, lot_id, qty) ==
    /\ conn[c].pc = "closed"
    /\ IF lot_id \notin DOMAIN stock_lots
       THEN /\ last' = [op |-> "consume_lot", row |-> None]
            /\ UNCHANGED conn
       ELSE /\ conn' = [conn EXCEPT ![c] =
                          [pc |-> "write", op |-> "consume_lot", lot_id |-> lot_id,
                           qty |-> qty, row |-> stock_lots[lot_id].qty]]
            /\ UNCHANGED last
    /\ UNCHANGED <<products, locations, stock_lots, movements, seq, lot_product, ambient>>

\* consume_lot: DELETE FROM stock_lots / UPDATE stock_lots SET qty
consume_lot_write(c) ==
    /\ conn[c].pc = "write"
    /\ write_lock_free
    /\ Len(movements) < MaxMovements
    /\ LET lot_id == conn[c].lot_id
           new_qty == conn[c].row - conn[c].qty
           d == [Db EXCEPT !.stock_lots =
                   IF lot_id \notin DOMAIN @ THEN @
                   ELSE IF lot_is_emptied(new_qty)
                        THEN [i \in DOMAIN @ \ {lot_id} |-> @[i]]
                        ELSE [@ EXCEPT ![lot_id].qty = new_qty]]
       IN /\ conn' = [conn EXCEPT ![c] = [@ EXCEPT !.pc = "movement"] @@ [db |-> d]]
          /\ Publish(visible(Db, d))
    /\ UNCHANGED <<products, locations, last, ambient>>

\* the INSERT INTO movements that follows the lot statement
insert_movement(c) ==
    /\ conn[c].pc = "movement"
    /\ LET k == conn[c]
           m == IF k.op # "consume_lot" THEN in_movement(k.lot_id, k.qty)
                ELSE IF lot_is_emptied(k.row - k.qty)
                     THEN out_movement_delete(k.lot_id, k.row, k.qty)
                     ELSE out_movement_update(k.lot_id, k.row, k.qty)
           d == [k.db EXCEPT !.movements = Append(@, m)]
       IN /\ conn' = [conn EXCEPT ![c] = [k EXCEPT !.pc = "commit", !.db = d]]
          /\ Publish(visible(Db, d))
    /\ UNCHANGED <<products, locations, last, ambient>>

\* c.commit()
commit(c) ==
    /\ conn[c].pc = "commit"
    /\ Publish(conn[c].db)
    /\ conn' = [conn EXCEPT ![c] = [pc |-> "closed"]]
    /\ last' = [op |-> "commit", of |-> conn[c].op, lot_id |-> conn[c].lot_id]
    /\ UNCHANGED <<products, locations, ambient>>

\* the process dies inside a db call: open transactions are rolled back
crash ==
    /\ \E c \in Conns : conn[c].pc # "closed"
    /\ conn' = [c \in Conns |-> [pc |-> "closed"]]
    /\ last' = [op |-> "crash", pcs |-> {conn[c].pc : c \in Conns}]
    /\ UNCHANGED <<products, locations, stock_lots, movements, seq, lot_product, ambient>>

\* --------------------------------------------------------- status_for
\* days <= crit_days
is_red_lt(days, crit_days) == days < crit_days

is_red(days, crit_days) == days <= crit_days

\* datetime.date.fromisoformat: ValueError on a malformed string and on a
\* day that its month does not have
fromisoformat(s) == IF s \in {Malformed, Rollover} THEN ValueError ELSE s

\* day is datetime.date.today()
status_for(best_before, warn_days, crit_days, day) ==
    IF best_before = None \/ best_before = EmptyStr THEN "unknown"
    ELSE IF fromisoformat(best_before) = ValueError THEN "unknown"
    ELSE LET days == fromisoformat(best_before) - day IN
         IF is_red(days, crit_days) THEN "red"
         ELSE IF days <= warn_days THEN "yellow"
         ELSE "green"

\* it["status"] = status_for(it.get("best_before"), WARNING_DAYS, CRITICAL_DAYS)
lot_status(best_before, warn_days, crit_days, day) ==
    /\ last' = [op |-> "status_for", best_before |-> best_before,
                 warn_days |-> warn_days, crit_days |-> crit_days,
                 today |-> day,
                 ret |-> status_for(best_before, warn_days, crit_days, day)]
    /\ UnchangedDb

\* ------------------------------------------------------------ list_lots
\* Rows of stock_lots that survive the inner joins with products and locations.
ListedIds ==
    {i \in DOMAIN stock_lots :
        /\ stock_lots[i].product_id \in DOMAIN products
        /\ stock_lots[i].location_id \in DOMAIN locations}

\* ORDER BY COALESCE(l.best_before, '9999-12-31'), COALESCE(NULLIF(l.article_name,''), p.name)
\* (add_lot leaves article_name NULL, so the display name is the product's).
OrderKey(i) ==
    <<IF stock_lots[i].best_before = None THEN MaxDate + 1 ELSE stock_lots[i].best_before,
      products[stock_lots[i].product_id].name>>

KeyLess(a, b) == a[1] < b[1] \/ (a[1] = b[1] /\ a[2] < b[2])

\* Every sequence over S that is ascending in OrderKey; SQL leaves the order
\* of rows with equal keys open.
RECURSIVE SortedSeqs(_)
SortedSeqs(S) ==
    IF S = {} THEN {<<>>}
    ELSE UNION {{<<x>> \o t : t \in SortedSeqs(S \ {x})} :
                 x \in {y \in S : \A z \in S : ~KeyLess(OrderKey(z), OrderKey(y))}}

list_lots == SortedSeqs(ListedIds)

\* ----------------------------------------------------- add_or_merge_lot
\* the three tests of the search loop, on a row of list_lots
same_signature_no_frozen(lot, product_id, location_id, bb, fr) ==
    /\ lot.product_id = product_id
    /\ lot.location_id = location_id
    /\ OrNone(lot.best_before) = bb

same_signature(lot, product_id, location_id, bb, fr) ==
    /\ lot.product_id = product_id
    /\ lot.location_id = location_id
    /\ OrNone(lot.best_before) = bb
    /\ OrNone(lot.frozen_on) = fr

\* rows is what this call's list_lots() returns
add_or_merge_lot(rows, product_id, location_id, qty_delta, best_before, frozen_on) ==
    LET bb == OrNone(best_before)
        fr == OrNone(frozen_on)
        call == [op |-> "add_or_merge_lot", product_id |-> product_id,
                 location_id |-> location_id, qty_delta |-> qty_delta,
                 best_before |-> best_before, frozen_on |-> frozen_on]
        hits == {j \in 1..Len(rows) :
                   same_signature(stock_lots[rows[j]], product_id, location_id, bb, fr)}
    IN
    /\ IF hits # {}
       THEN LET lot_id == rows[CHOOSE j \in hits : \A k \in hits : j <= k]
                new_qty == stock_lots[lot_id].qty + qty_delta
            IN
            /\ new_qty <= MaxQty
            /\ update_lot_sql(lot_id, new_qty, location_id, fr, bb)
            /\ last' = call @@ [action |-> "merge", lot_id |-> lot_id,
                                new_qty |-> new_qty]
       ELSE /\ add_lot_sql(product_id, location_id, qty_delta, fr, bb)
            /\ last' = call @@ [action |-> "insert", lot_id |-> seq.stock_lots + 1,
                                new_qty |-> qty_delta]
    /\ UNCHANGED <<products, locations, conn, ambient>>

\* ------------------------------------------------------- routes/api.py
\* ("~", "") if not bb else ("", str(bb)), with "" < "~" as 0 < 1
_fifo_sort_key(bb) == IF bb = None \/ bb = EmptyStr THEN <<1, 0>> ELSE <<0, bb>>

RemoveAt(s, j) == SubSeq(s, 1, j - 1) \o SubSeq(s, j + 1, Len(s))

\* Python's sorted(lots, key=_fifo_sort_key): stable.
RECURSIVE sorted_fifo(_)
sorted_fifo(rows) ==
    IF rows = <<>> THEN <<>>
    ELSE LET key(j) == _fifo_sort_key(stock_lots[rows[j]].best_before)
             first == CHOOSE j \in 1..Len(rows) :
                         \A k \in 1..Len(rows) :
                             \/ KeyLess(key(j), key(k))
                             \/ (key(j) = key(k) /\ j <= k)
         IN <<rows[first]>> \o sorted_fifo(RemoveAt(rows, first))

\* the filter on list_lots(): the product's rows with qty > 0
has_stock_ge(i, product_id) ==
    stock_lots[i].product_id = product_id /\ stock_lots[i].qty >= 0

has_stock(i, product_id) ==
    stock_lots[i].product_id = product_id /\ stock_lots[i].qty > 0

\* POST /api/consume
api_consume(product_id, qty) ==
    /\ UnchangedDb
    /\ IF product_id < 1 \/ qty <= 0
       THEN last' = [op |-> "api_consume", status |-> 422]
       ELSE IF product_id \notin DOMAIN products
       THEN last' = [op |-> "api_consume", product_id |-> product_id, qty |-> qty,
                     status |-> 404, error |-> "product not found"]
       ELSE \E all_lots \in list_lots :
          LET lots == SelectSeq(all_lots, LAMBDA i : has_stock(i, product_id))
          IN
          IF lots = <<>>
          THEN last' = [op |-> "api_consume", product_id |-> product_id, qty |-> qty,
                        status |-> 404, error |-> "no stock"]
          ELSE \* first pass of the loop: remaining = qty > 0 and before > 0, so
               \* "UPDATE lots SET qty = ? WHERE id = ?" is executed for
               \* sorted_fifo(lots)[1]; init_db creates no table named lots, the
               \* statement raises and the handler answers 500.
               /\ "lots" \notin Tables
               /\ sorted_fifo(lots)[1] \in DOMAIN stock_lots
               /\ last' = [op |-> "api_consume", product_id |-> product_id, qty |-> qty,
                           status |-> 500, error |-> "server"]

\* POST /api/consume-lot
api_consume_lot(lot_id, qty) ==
    /\ UnchangedDb
    /\ IF lot_id < 1 \/ qty <= 0
       THEN last' = [op |-> "api_consume_lot", status |-> 422]
       ELSE \* "SELECT ... FROM lots WHERE id = ?" raises: no table named lots
            /\ "lots" \notin Tables
            /\ last' = [op |-> "api_consume_lot", status |-> 500, error |-> "server"]

\* ------------------------------------------------------- product_adjust
\* the name "Général" of the location made when there is none
General == 0

\* delta of POST /product/adjust
DeltaInputs == (0 - 2 * MaxQty)..1

\* get_step_for_unit(prod.get("unit")): add_product leaves unit at 'pièce'
get_step_for_unit == 1

\* the tables after consume_lot(lot_id, qty) on the tables d
consume_lot_on(d, lot_id, qty) ==
    IF lot_id \notin DOMAIN d.stock_lots THEN d
    ELSE LET row == d.stock_lots[lot_id]
             new_qty == row.qty - qty
         IN IF lot_is_emptied(new_qty)
            THEN [stock_lots |-> [i \in DOMAIN d.stock_lots \ {lot_id} |->
                                     d.stock_lots[i]],
                  movements |-> Append(d.movements,
                                       out_movement_delete(lot_id, row.qty, qty))]
            ELSE [stock_lots |-> [d.stock_lots EXCEPT ![lot_id].qty = new_qty],
                  movements |-> Append(d.movements,
                                       out_movement_update(lot_id, row.qty, qty))]

\* for lot in list_lots(): skip the other products, stop when nothing
\* remains, consume min(remaining, lot["qty"]) of the row as it was listed
RECURSIVE adjust_loop(_, _, _, _)
adjust_loop(rows, product_id, remaining, d) ==
    IF rows = <<>> THEN d
    ELSE LET lot == stock_lots[Head(rows)] IN
         IF lot.product_id # product_id
         THEN adjust_loop(Tail(rows), product_id, remaining, d)
         ELSE IF remaining <= 0 THEN d
         ELSE LET consume == Min(remaining, lot.qty) IN
              adjust_loop(Tail(rows), product_id, remaining - consume,
                          consume_lot_on(d, Head(rows), consume))

\* locs[0] of list_locations(): ORDER BY name
first_location ==
    CHOOSE i \in DOMAIN locations :
       \A j \in DOMAIN locations : locations[i].name <= locations[j].name

\* POST /product/adjust
product_adjust(product_id, delta) ==
    LET qty == get_step_for_unit * delta IN
    IF product_id \notin DOMAIN products
    THEN /\ last' = [op |-> "product_adjust", error |-> "noprod"]
         /\ UnchangedDb
    ELSE IF qty > 0
    THEN /\ seq.stock_lots < MaxLots
         /\ Len(movements) < MaxMovements
         /\ DOMAIN locations = {} => seq.locations < MaxLocations
         /\ LET made == DOMAIN locations = {}
                loc_id == IF made THEN seq.locations + 1 ELSE first_location
                lot_id == seq.stock_lots + 1
            IN /\ locations' = IF made
                              THEN loc_id :> [name |-> General, is_freezer |-> 0]
                              ELSE locations
               /\ stock_lots' = stock_lots @@
                      (lot_id :> [product_id |-> product_id,
                                  location_id |-> loc_id, qty |-> qty,
                                  frozen_on |-> None, best_before |-> None])
               /\ movements' = Append(movements, in_movement(lot_id, qty))
               /\ seq' = [seq EXCEPT !.stock_lots = lot_id,
                                     !.locations = IF made THEN loc_id ELSE @]
               /\ lot_product' = lot_product @@ (lot_id :> product_id)
         /\ last' = [op |-> "product_adjust", error |-> NULL,
                     product_id |-> product_id, qty |-> qty]
         /\ UNCHANGED <<products, conn, ambient>>
    ELSE /\ Len(movements) < MaxMovements
         /\ \E rows \in list_lots :
               LET d == adjust_loop(rows, product_id, 0 - qty,
                                    [stock_lots |-> stock_lots,
                                     movements |-> movements])
               IN /\ stock_lots' = d.stock_lots
                  /\ movements' = d.movements
         /\ last' = [op |-> "product_adjust", error |-> NULL,
                     product_id |-> product_id, qty |-> qty]
         /\ UNCHANGED <<products, locations, seq, lot_product, conn, ambient>>

\* ------------------------------------------------ list_product_insights
\* SELECT MAX(m.ts) FROM movements m JOIN stock_lots l ON l.id = m.lot_id
\* WHERE l.product_id = p.id AND m.type = type; NULL (None) over no row
max_ts_joined_lots(p, type) ==
    LET ts == {movements[k].ts : k \in
                  {k \in DOMAIN movements :
                      /\ movements[k].type = type
                      /\ movements[k].lot_id \in DOMAIN stock_lots
                      /\ stock_lots[movements[k].lot_id].product_id = p}}
    IN IF ts = {} THEN None ELSE CHOOSE t \in ts : \A u \in ts : u <= t

\* the products page: insights = list_product_insights()
list_product_insights ==
    /\ last' = [op |-> "list_product_insights",
                ret |-> [p \in DOMAIN products |->
                           [last_in |-> max_ts_joined_lots(p, "IN"),
                            last_out |-> max_ts_joined_lots(p, "OUT")]]]
    /\ UnchangedDb

\* ------------------------------------------ settings_store.py, config.py
\* the two retention thresholds among the keys of DEFAULTS
DEFAULTS == [retention_days_warning |-> 30, retention_days_critical |-> 14]

\* a written settings.json
stored(data) ==
    [retention_days_warning |-> data.retention_days_warning,
     retention_days_critical |-> data.retention_days_critical,
     legacy |-> FALSE]

\* {k: raw.get(k, DEFAULTS[k]) for k in DEFAULTS.keys()}; None is a key
\* that raw does not have
_only_known_keys(raw) ==
    [k \in DOMAIN DEFAULTS |-> IF raw[k] = None THEN DEFAULTS[k] ELSE raw[k]]

_int_ge0(v, dflt) == IF v = Malformed THEN dflt ELSE Max(0, v)

_coerce_types(raw) ==
    LET clean_in == _only_known_keys(raw)
        warning == _int_ge0(clean_in.retention_days_warning,
                            DEFAULTS.retention_days_warning)
        critical == _int_ge0(clean_in.retention_days_critical,
                             DEFAULTS.retention_days_critical)
    IN [retention_days_warning |-> warning,
        retention_days_critical |-> IF critical > warning THEN warning
                                    ELSE critical]

\* what save_settings writes: _coerce_types(_only_known_keys(payload))
saved_data(payload) == _coerce_types(_only_known_keys(payload))

\* load_settings on settings.json = file: whether it raises, what it
\* returns and what it leaves in settings.json. ensure_data_dir and the
\* save_settings(DEFAULTS) of a missing file are outside the try; the read,
\* the coercion and the rewrite of a file with obsolete keys are inside it.
load_settings(file, data_ok) ==
    IF file = Absent
    THEN IF data_ok
         THEN [raised |-> FALSE, ret |-> DEFAULTS,
               file |-> stored(saved_data(DEFAULTS))]
         ELSE [raised |-> TRUE, ret |-> DEFAULTS, file |-> file]
    ELSE IF file = Corrupt
    THEN [raised |-> FALSE, ret |-> DEFAULTS, file |-> file]
    ELSE IF file.legacy
    THEN IF data_ok
         THEN [raised |-> FALSE, ret |-> _coerce_types(file),
               file |-> stored(_coerce_types(file))]
         ELSE [raised |-> FALSE, ret |-> DEFAULTS, file |-> file]
    ELSE [raised |-> FALSE, ret |-> _coerce_types(file), file |-> file]

\* unset, blank or not an integer: the default
_env_int(raw, default) == IF raw = None \/ raw = Malformed THEN default ELSE raw

\* (WARNING_DAYS, CRITICAL_DAYS): settings.json first, the environment when
\* load_settings raises
get_retention_thresholds(file, env) ==
    LET s == load_settings(file, env.data_ok) IN
    IF ~s.raised
    THEN <<s.ret.retention_days_warning, s.ret.retention_days_critical>>
    ELSE <<_env_int(env.WARNING_DAYS, 30), _env_int(env.CRITICAL_DAYS, 14)>>

\* WARNING_DAYS, CRITICAL_DAYS = get_retention_thresholds(), evaluated when
\* config is first imported
import_config(file, env) ==
    [WARNING_DAYS |-> get_retention_thresholds(file, env)[1],
     CRITICAL_DAYS |-> get_retention_thresholds(file, env)[2]]

\* save_settings(payload): raises when /data cannot be written
save_settings(payload) ==
    /\ settings_json' = IF os_env.data_ok THEN stored(saved_data(payload))
                        ELSE settings_json
    /\ last' = [op |-> "save_settings", payload |-> payload,
                raised |-> ~os_env.data_ok, before |-> settings_json]
    /\ UNCHANGED <<products, locations, stock_lots, movements, seq,
                   lot_product, conn, os_env, config, today>>

\* POST /settings/save: the form carries none of the retention keys
settings_save ==
    LET normalized == [retention_days_warning |-> None,
                       retention_days_critical |-> None]
    IN
    /\ settings_json' = IF os_env.data_ok THEN stored(saved_data(normalized))
                        ELSE settings_json
    /\ last' = [op |-> "settings_save", raised |-> ~os_env.data_ok,
                before |-> settings_json]
    /\ UNCHANGED <<products, locations, stock_lots, movements, seq,
                   lot_product, conn, os_env, config, today>>

\* GET /lots: every listed lot is classified with the imported constants
lots_page ==
    /\ last' = [op |-> "lots_page",
                warn_days |-> config.WARNING_DAYS,
                crit_days |-> config.CRITICAL_DAYS,
                status |-> [i \in ListedIds |->
                              status_for(stock_lots[i].best_before,
                                         config.WARNING_DAYS,
                                         config.CRITICAL_DAYS, today)]]
    /\ UnchangedDb

\* the process is started again: config is imported anew
restart ==
    /\ \A c \in Conns : conn[c].pc = "closed"
    /\ LET s == load_settings(settings_json, os_env.data_ok) IN
       /\ settings_json' = s.file
       /\ config' = import_config(settings_json, os_env)
    /\ last' = [op |-> "restart"]
    /\ UNCHANGED <<products, locations, stock_lots, movements, seq,
                   lot_product, conn, os_env, today>>

\* midnight
tick ==
    /\ today < MaxDate
    /\ today' = today + 1
    /\ last' = [op |-> "tick"]
    /\ UNCHANGED <<products, locations, stock_lots, movements, seq,
                   lot_product, conn, settings_json, os_env, config>>

\* ------------------------------------------------------- routes/ha.py
\* SQLite's julianday: NULL (None here) on a malformed string; a day up to
\* 31 is taken in any month and counted on from the month's first day
julianday(s) ==
    IF s = None \/ s = EmptyStr \/ s = Malformed THEN None
    ELSE IF s = Rollover THEN 1
    ELSE s

\* the WHERE clause of the two counts, after best_before IS NOT NULL
\* AND best_before <> ''
ha_days_left(i) == julianday(stock_lots[i].best_before) - today

dated(i) ==
    /\ stock_lots[i].best_before # None
    /\ stock_lots[i].best_before # EmptyStr
    /\ julianday(stock_lots[i].best_before) # None

\* GET /api/ha/summary: _guess_lots_table finds stock_lots, no table has an
\* activation column, so both counts run over every row of stock_lots
ha_summary ==
    LET s == load_settings(settings_json, os_env.data_ok)
        t == get_retention_thresholds(settings_json, os_env)
        warn_days == t[1]
        crit_days == t[2]
    IN
    /\ settings_json' = s.file
    /\ last' = [op |-> "ha_summary",
                warn_days |-> warn_days, crit_days |-> crit_days,
                urgent |-> Cardinality({i \in DOMAIN stock_lots :
                              dated(i) /\ ha_days_left(i) <= crit_days}),
                soon |-> Cardinality({i \in DOMAIN stock_lots :
                              /\ dated(i)
                              /\ ha_days_left(i) > crit_days
                              /\ ha_days_left(i) <= warn_days})]
    /\ UNCHANGED <<products, locations, stock_lots, movements, seq,
                   lot_product, conn, os_env, config, today>>

\* --------------------------------------------------------- specifications
\* One product name and one location name: ids above the first never exist.
CatalogStep ==
    \/ add_location(1, 0)
    \/ add_product(1, None)

CatalogNext ==
    \/ \E n \in Names, f \in Flags : add_location(n, f)
    \/ \E n \in Names, b \in Barcodes : add_product(n, b)

\* add_lot and consume_lot only
AddConsumeNext ==
    \/ CatalogStep
    \/ \E p \in ProductIdInputs, q \in QtyInputs : add_lot(p, 1, q, None, None)
    \/ \E i \in LotIdInputs, q \in QtyInputs : consume_lot(i, q)

SpecAddConsume == Init /\ [][AddConsumeNext]_vars

\* merge-or-create over rows with and without normalised dates
MergeNext ==
    \/ CatalogStep
    \/ \E fr \in NullInputs, bb \in NullInputs : add_lot(1, 1, 1, fr, bb)
    \/ \E rows \in list_lots, p \in ProductIdInputs, l \in LocationIdInputs,
          bb \in FrozenInputs, fr \in FrozenInputs :
          add_or_merge_lot(rows, p, l, 1, bb, fr)

SpecMerge == Init /\ [][MergeNext]_vars

\* the JSON consumption endpoints over dated and undated lots
FifoNext ==
    \/ CatalogStep
    \/ \E p \in ProductIdInputs, q \in QtyInputs, bb \in DateInputs :
          add_lot(p, 1, q, None, bb)
    \/ \E p \in ApiIdInputs, q \in QtyInputs : api_consume(p, q)
    \/ \E i \in ApiIdInputs, q \in QtyInputs : api_consume_lot(i, q)

SpecFifo == Init /\ [][FifoNext]_vars

\* /api/consume over products with no row, rows of quantity 0 and rows in stock
NoStockNext ==
    \/ CatalogStep
    \/ \E p \in ProductIdInputs, q \in QtyInputs : add_lot(p, 1, q, None, None)
    \/ \E p \in ApiIdInputs, q \in QtyInputs : api_consume(p, q)

SpecNoStock == Init /\ [][NoStockNext]_vars

\* the lot store behind the /lot and /product routes
StoreNext ==
    \/ CatalogStep
    \/ \E q \in PositiveQty : add_lot(1, 1, q, None, None)
    \/ \E p \in ProductIdInputs : add_lot_purchase(p, 1, 1, None, None)
    \/ \E i \in LotIdInputs, q \in QtyInputs : lot_consume_action(i, q)
    \/ \E i \in LotIdInputs : delete_lot(i)
    \/ \E p \in ProductIdInputs : delete_product(p)

SpecStore == Init /\ [][StoreNext]_vars

\* freezer and non-freezer locations, their lots, and /location/delete
LocationsNext ==
    \/ \E n \in Names, f \in Flags : add_location(n, f)
    \/ add_product(1, None)
    \/ \E l \in LocationIdInputs, q \in PositiveQty : add_lot(1, l, q, None, None)
    \/ \E l \in LocationIdInputs, m \in MoveToInputs : location_delete(l, m)

SpecLocations == Init /\ [][LocationsNext]_vars

\* the status classifier over every date, threshold pair and today
StatusNext ==
    \E bb \in StatusInputs, t \in Thresholds, day \in Dates :
       lot_status(bb, t[1], t[2], day)

SpecStatus == Init /\ [][StatusNext]_vars

\* add_lot, add_lot_purchase and consume_lot statement by statement, on two
\* connections, with crashes
TxnNext ==
    \/ \E c \in Conns, op \in {"add_lot", "add_lot_purchase"}, q \in PositiveQty :
          add_lot_insert(c, op, 1, 1, q, None, None)
    \/ \E c \in Conns, i \in LotIdInputs, q \in PositiveQty :
          consume_lot_select(c, i, q)
    \/ \E c \in Conns : consume_lot_write(c)
    \/ \E c \in Conns : insert_movement(c)
    \/ \E c \in Conns : commit(c)
    \/ crash

SpecTxn == Init /\ [][TxnNext]_vars

Next ==
    \/ CatalogNext
    \/ \E p \in ProductIdInputs, l \in LocationIdInputs, q \in QtyInputs,
          fr \in DateInputs, bb \in DateInputs : add_lot(p, l, q, fr, bb)
    \/ \E i \in LotIdInputs, q \in QtyInputs, l \in LocationIdInputs,
          fr \in DateInputs, bb \in DateInputs : update_lot(i, q, l, fr, bb)
    \/ \E rows \in list_lots, p \in ProductIdInputs, l \in LocationIdInputs,
          q \in QtyInputs, bb \in DateInputs, fr \in DateInputs :
          add_or_merge_lot(rows, p, l, q, bb, fr)
    \/ \E i \in LotIdInputs, q \in QtyInputs : consume_lot(i, q)
    \/ \E i \in LotIdInputs : delete_lot(i)
    \/ \E p \in ProductIdInputs : delete_product(p)
    \/ \E l \in LocationIdInputs, m \in MoveToInputs : location_delete(l, m)
    \/ \E p \in ApiIdInputs, q \in QtyInputs : api_consume(p, q)
    \/ \E i \in ApiIdInputs, q \in QtyInputs : api_consume_lot(i, q)
    \/ \E p \in ProductIdInputs, delta \in DeltaInputs : product_adjust(p, delta)
    \/ list_product_insights
    \/ settings_save
    \/ \E payload \in PayloadInputs : save_settings(payload)
    \/ lots_page
    \/ ha_summary
    \/ restart
    \/ tick
    \/ StatusNext
    \/ TxnNext

Spec == Init /\ [][Next]_vars

\* lots come and go over the days and the products page shows its insights
InsightsNext ==
    \/ CatalogStep
    \/ \E q \in PositiveQty : add_lot(1, 1, q, None, None)
    \/ \E i \in LotIdInputs, q \in PositiveQty : consume_lot(i, q)
    \/ tick
    \/ list_product_insights

SpecInsights == Init /\ [][InsightsNext]_vars

\* the Home Assistant summary over lots of any best_before text, under
\* changing thresholds and dates
BestBeforeInputs == StatusInputs \cup {Rollover}

SummaryNext ==
    \/ \E bb \in BestBeforeInputs : add_lot(1, 1, 1, None, bb)
    \/ \E payload \in PayloadInputs : save_settings(payload)
    \/ tick
    \/ ha_summary

SpecSummary == Init /\ [][SummaryNext]_vars

\* the +/- buttons of the products page over two products and their lots
AdjustNext ==
    \/ add_location(1, 0)
    \/ \E n \in Names : add_product(n, None)
    \/ \E p \in ProductIdInputs, l \in LocationIdInputs, q \in PositiveQty,
          bb \in {None} \cup Dates : add_lot(p, l, q, None, bb)
    \/ \E p \in ProductIdInputs, delta \in DeltaInputs : product_adjust(p, delta)

SpecAdjust == Init /\ [][AdjustNext]_vars

\* the catalog: products by name and barcode
BarcodeInputs == {None, EmptyStr, 1, 2}

ProductsNext ==
    \/ \E n \in Names, b \in BarcodeInputs : add_product(n, b)
    \/ \E n \in Names : add_location(n, 0)
    \/ \E p \in ProductIdInputs : delete_product(p)

SpecProducts == Init /\ [][ProductsNext]_vars

\* the retention thresholds: the process starts on any settings.json and
\* environment, settings are saved, pages and the summary classify lots
SettingsInit ==
    /\ products = <<>>
    /\ locations = <<>>
    /\ stock_lots = <<>>
    /\ movements = <<>>
    /\ seq = [products |-> 0, locations |-> 0, stock_lots |-> 0]
    /\ lot_product = <<>>
    /\ conn = [c \in Conns |-> [pc |-> "closed"]]
    /\ today = 1
    /\ last = [op |-> "init_db"]
    /\ \E file \in FileInputs, data_ok \in BOOLEAN, w \in EnvInputs, c \in EnvInputs :
          LET env == [data_ok |-> data_ok, WARNING_DAYS |-> w, CRITICAL_DAYS |-> c]
          IN /\ os_env = env
             /\ settings_json = load_settings(file, data_ok).file
             /\ config = import_config(file, env)

SettingsNext ==
    \/ settings_save
    \/ \E payload \in PayloadInputs : save_settings(payload)
    \/ lots_page
    \/ ha_summary
    \/ restart
    \/ add_location(1, 0)
    \/ add_product(1, None)
    \/ add_lot(1, 1, 1, None, MaxDate)

SpecSettings == SettingsInit /\ [][SettingsNext]_vars

\* ------------------------------------------------------------ properties
LotsOf(p) == {i \in DOMAIN stock_lots : stock_lots[i].product_id = p}

LiveQty(p) == SumOver([i \in LotsOf(p) |-> stock_lots[i].qty], LotsOf(p))

RECURSIVE SumQty(_)
SumQty(ms) == IF ms = <<>> THEN 0 ELSE Head(ms).qty + SumQty(Tail(ms))

\* movements of the lots product p ever had, deleted lots included
MovedQty(p, type) ==
    SumQty(SelectSeq(movements,
                     LAMBDA m : m.type = type /\ lot_product[m.lot_id] = p))

LastMovement == movements[Len(movements)]

\* C1: for every product, in every state reached by add_lot and consume_lot
\* calls, the quantities of its live lots add up to its IN movements minus its
\* OUT movements, the movements of lots deleted by consumption included.
C1_Conservation ==
    \A p \in ProductIdInputs : LiveQty(p) = MovedQty(p, "IN") - MovedQty(p, "OUT")

\* a product keeps a live lot after a consume_lot call asked for more than
\* another of its lots held and deleted it
C1_Witness ==
    /\ last.op = "consume_lot"
    /\ last.row # None
    /\ last.row > 0
    /\ last.qty > last.row
    /\ LastMovement.note = "delete lot"
    /\ LastMovement.lot_id = last.lot_id
    /\ LiveQty(lot_product[last.lot_id]) > 0

\* C2: every row of stock_lots has qty > 0.
C2_AllLotsPositive == \A i \in DOMAIN stock_lots : stock_lots[i].qty > 0

\* C5: a consume_lot call with qty > 0 on an existing lot of quantity Q deletes
\* the row when qty >= Q, leaves it with Q - qty when qty < Q, and never leaves
\* it with a quantity of zero or less.
C5_ConsumeLotDeletesOrKeeps ==
    [][(/\ last'.op = "consume_lot"
        /\ last'.row # None
        /\ last'.qty > 0)
       => LET i == last'.lot_id
              q == last'.qty
              Q == stock_lots[i].qty
          IN /\ IF q >= Q
                THEN i \notin DOMAIN stock_lots'
                ELSE i \in DOMAIN stock_lots' /\ stock_lots'[i].qty = Q - q
             /\ i \in DOMAIN stock_lots' => stock_lots'[i].qty > 0]_vars

\* consume_lot was asked for more than the lot held and the row is gone
C5_Witness ==
    /\ last.op = "consume_lot"
    /\ last.row # None
    /\ last.row > 0
    /\ last.qty > last.row
    /\ last.lot_id \notin DOMAIN stock_lots

\* C6: a consume_lot call on an existing lot appends exactly one movement, of
\* type OUT: the lot's prior quantity with note "delete lot" when the row is
\* deleted, the requested qty without note when the row stays.
C6_ConsumeLotOneOutMovement ==
    [][(/\ last'.op = "consume_lot"
        /\ last'.row # None)
       => LET i == last'.lot_id IN
          movements' = Append(movements,
              IF i \notin DOMAIN stock_lots'
              THEN [lot_id |-> i, type |-> "OUT", qty |-> stock_lots[i].qty,
                    ts |-> today, note |-> "delete lot"]
              ELSE [lot_id |-> i, type |-> "OUT", qty |-> last'.qty,
                    ts |-> today, note |-> NULL])]_vars

\* a partial consumption: the row stays and the ledger ends with the request
C6_Witness ==
    /\ last.op = "consume_lot"
    /\ last.row # None
    /\ last.qty > 0
    /\ last.qty < last.row
    /\ last.lot_id \in DOMAIN stock_lots
    /\ LastMovement = [lot_id |-> last.lot_id, type |-> "OUT", qty |-> last.qty,
                       ts |-> today, note |-> NULL]

\* ---- FIFO consumption as the claims state it
IsNull(x) == x = None \/ x = EmptyStr

\* lot i is taken from before lot j: dated before undated, earlier date
\* first, lower id first among equals
FifoBefore(i, j) ==
    LET bi == stock_lots[i].best_before
        bj == stock_lots[j].best_before
    IN \/ ~IsNull(bi) /\ IsNull(bj)
       \/ ~IsNull(bi) /\ ~IsNull(bj) /\ bi < bj
       \/ (IsNull(bi) <=> IsNull(bj)) /\ (IsNull(bi) \/ bi = bj) /\ i < j

LiveLots(p) == {i \in LotsOf(p) : stock_lots[i].qty > 0}

TotalStock(p) == SumOver([i \in LiveLots(p) |-> stock_lots[i].qty], LiveLots(p))

\* what the step took from lot i
Taken(i) ==
    stock_lots[i].qty - (IF i \in DOMAIN stock_lots' THEN stock_lots'[i].qty ELSE 0)

\* the step is an /api/consume call for an existing product whose live lots
\* all sit in existing locations, with a quantity > 0
FifoCall ==
    /\ last'.op = "api_consume"
    /\ last'.status # 422
    /\ last'.product_id \in DOMAIN products
    /\ last'.qty > 0
    /\ LiveLots(last'.product_id) # {}
    /\ \A i \in LiveLots(last'.product_id) : stock_lots[i].location_id \in DOMAIN locations

\* C3: consume_fifo takes from the product's lots in ascending best_before
\* order, lower lot id first among equal dates, undated lots last: each lot
\* gives what is still asked for once the lots before it are exhausted.
C3_FifoOrder ==
    [][FifoCall =>
       \A i \in LiveLots(last'.product_id) :
          LET before == {j \in LiveLots(last'.product_id) : FifoBefore(j, i)}
              ahead == SumOver([j \in before |-> stock_lots[j].qty], before)
          IN Taken(i) = Min(stock_lots[i].qty, Max(0, last'.qty - ahead))]_vars

\* C4: asked for R > T > 0, consume_fifo succeeds, reports consumed_qty = T and
\* R - T left over, and the product has no live lot afterwards.
C4_PartialFulfilment ==
    [][(FifoCall /\ last'.qty > TotalStock(last'.product_id))
       => /\ last'.status = 200
          /\ last'.consumed_qty = TotalStock(last'.product_id)
          /\ last'.remaining_to_consume = last'.qty - TotalStock(last'.product_id)
          /\ \A i \in DOMAIN stock_lots' :
                stock_lots'[i].product_id # last'.product_id]_vars

\* C10: a FIFO consumption that takes C in total adds OUT movements of the
\* product's lots for exactly C.
C10_FifoWritesMovements ==
    [][FifoCall =>
       \E p \in ProductIdInputs :
          /\ p = last'.product_id
          /\ MovedQty(p, "OUT")' = MovedQty(p, "OUT") + Min(last'.qty, TotalStock(p))]_vars

\* ---- merge-or-create as the claims state it
SameDate(x, y) == (IsNull(x) /\ IsNull(y)) \/ x = y

\* rows of table t that carry the signature of call c
Signed(t, c) ==
    {i \in DOMAIN t :
        /\ t[i].product_id = c.product_id
        /\ t[i].location_id = c.location_id
        /\ SameDate(t[i].best_before, c.best_before)
        /\ SameDate(t[i].frozen_on, c.frozen_on)}

\* C7: two add_or_merge_lot calls in a row with the same signature, the first
\* of which created the lot with quantity a: the second reports "merge" with
\* the first call's lot id and leaves one lot of that signature, of quantity
\* a + b.
C7_MergeTwice ==
    [][(/\ last.op = "add_or_merge_lot"
        /\ last.action = "insert"
        /\ last'.op = "add_or_merge_lot"
        /\ last'.product_id = last.product_id
        /\ last'.location_id = last.location_id
        /\ SameDate(last'.best_before, last.best_before)
        /\ SameDate(last'.frozen_on, last.frozen_on))
       => /\ last'.action = "merge"
          /\ last'.lot_id = last.lot_id
          /\ Signed(stock_lots', last') = {last.lot_id}
          /\ stock_lots'[last.lot_id].qty = last.qty_delta + last'.qty_delta]_vars

\* C8: add_or_merge_lot merges only into a lot that matches the call on
\* product, location, best_before and frozen_on ('' and None alike); when no
\* existing lot matches, it inserts a new lot and changes no existing quantity.
C8_MergeOnlyOnFullMatch ==
    [][last'.op = "add_or_merge_lot"
       => /\ last'.action = "merge" => last'.lot_id \in Signed(stock_lots, last')
          /\ Signed(stock_lots, last') = {}
             => /\ last'.action = "insert"
                /\ DOMAIN stock_lots' = DOMAIN stock_lots \cup {last'.lot_id}
                /\ last'.lot_id \notin DOMAIN stock_lots
                /\ stock_lots'[last'.lot_id].qty = last'.qty_delta
                /\ \A i \in DOMAIN stock_lots :
                      stock_lots'[i].qty = stock_lots[i].qty]_vars

\* a merge asked with best_before '' went into a lot stored with NULL while a
\* lot differing only in frozen_on stands next to it, and an insert happened
\* for a signature no lot had
C8_Witness ==
    /\ last.op = "add_or_merge_lot"
    /\ last.action = "merge"
    /\ last.best_before = EmptyStr
    /\ stock_lots[last.lot_id].best_before = None
    /\ \E j \in DOMAIN stock_lots :
          /\ j # last.lot_id
          /\ stock_lots[j].product_id = last.product_id
          /\ stock_lots[j].location_id = last.location_id
          /\ SameDate(stock_lots[j].best_before, last.best_before)
          /\ ~SameDate(stock_lots[j].frozen_on, last.frozen_on)

\* C9: for every live lot, its IN movements minus its OUT movements equal its
\* stored quantity.
C9_LotLedgerMatches ==
    \A i \in DOMAIN stock_lots :
       SumQty(SelectSeq(movements, LAMBDA m : m.lot_id = i /\ m.type = "IN"))
       - SumQty(SelectSeq(movements, LAMBDA m : m.lot_id = i /\ m.type = "OUT"))
       = stock_lots[i].qty

\* C11: consume_fifo on an existing product that has no lot with quantity > 0
\* answers 404 "no stock" and changes no lot and no movement.
C11_NoStockIsNotFound ==
    [][(/\ last'.op = "api_consume"
        /\ last'.status # 422
        /\ last'.product_id \in DOMAIN products
        /\ last'.qty > 0
        /\ LiveLots(last'.product_id) = {})
       => /\ last'.status = 404
          /\ last'.error = "no stock"
          /\ UNCHANGED <<stock_lots, movements>>]_vars

\* "no stock" was answered for a product whose only lot is a row of quantity 0
C11_Witness ==
    /\ last.op = "api_consume"
    /\ last.status = 404
    /\ last.error = "no stock"
    /\ last.product_id \in DOMAIN products
    /\ LotsOf(last.product_id) # {}
    /\ \A i \in LotsOf(last.product_id) :
          stock_lots[i].qty = 0 /\ stock_lots[i].location_id \in DOMAIN locations

\* ---- deletions as the claims state them
\* movements of lots that were inserted for product p, live or not
MovementsOf(ms, p) == SelectSeq(ms, LAMBDA m : lot_product[m.lot_id] = p)

\* C12: after delete_product(p) no stock lot of p remains and no movement
\* remains that refers to a lot of p; the lots and the movements of the other
\* products are unchanged.
C12_DeleteProductCascades ==
    [][(last'.op = "delete_product" /\ last'.product_id \in DOMAIN products)
       => \E p \in ProductIdInputs :
             /\ p = last'.product_id
             /\ \A i \in DOMAIN stock_lots' : stock_lots'[i].product_id # p
             /\ MovementsOf(movements', p) = <<>>
             /\ \A i \in DOMAIN stock_lots :
                   stock_lots[i].product_id # p
                   => i \in DOMAIN stock_lots' /\ stock_lots'[i] = stock_lots[i]
             /\ \A r \in ProductIdInputs \ {p} :
                   MovementsOf(movements', r) = MovementsOf(movements, r)]_vars

\* C17: consume_lot, update_lot, delete_lot and add_lot called with a lot id,
\* product id or location id that does not exist leave stock_lots and
\* movements unchanged.
C17_UnknownIdIsNoOp ==
    [][(\/ /\ last'.op = "add_lot"
           /\ \/ last'.product_id \notin DOMAIN products
              \/ last'.location_id \notin DOMAIN locations
        \/ /\ last'.op = "update_lot"
           /\ \/ last'.lot_id \notin DOMAIN stock_lots
              \/ last'.location_id \notin DOMAIN locations
        \/ /\ last'.op = "consume_lot"
           /\ last'.row = None
        \/ /\ last'.op = "delete_lot"
           /\ last'.row = None)
       => UNCHANGED <<stock_lots, movements>>]_vars

\* C18: a /lot/consume, /api/consume or /api/consume-lot request with a
\* quantity <= 0 changes no lot and appends no movement.
C18_NonPositiveConsumeRejected ==
    [][(\/ /\ last'.op = "consume_lot"
           /\ last'.row # None
           /\ last'.qty <= 0
        \/ /\ last'.op \in {"api_consume", "api_consume_lot"}
           /\ last'.status = 422)
       => UNCHANGED <<stock_lots, movements>>]_vars

\* C19: add_lot and add_lot_purchase each create exactly one new lot with the
\* given quantity and append exactly one movement, an IN of that lot with the
\* same quantity; no other lot and no other movement changes.
C19_AddLotFrame ==
    [][last'.op \in {"add_lot", "add_lot_purchase"}
       => LET id == last'.ret
              n == Len(movements)
          IN /\ id \notin DOMAIN stock_lots
             /\ DOMAIN stock_lots' = DOMAIN stock_lots \cup {id}
             /\ stock_lots'[id].qty = last'.qty
             /\ \A i \in DOMAIN stock_lots : stock_lots'[i] = stock_lots[i]
             /\ Len(movements') = n + 1
             /\ SubSeq(movements', 1, n) = movements
             /\ movements'[n + 1].lot_id = id
             /\ movements'[n + 1].type = "IN"
             /\ movements'[n + 1].qty = last'.qty]_vars

\* add_lot_purchase added a lot next to another lot and its movements
C19_Witness ==
    /\ last.op = "add_lot_purchase"
    /\ last.ret \in DOMAIN stock_lots
    /\ DOMAIN stock_lots # {last.ret}
    /\ Len(movements) >= 3

\* C20: delete_lot(l) removes lot l and every movement of l, appends no
\* movement, and leaves the other lots and their movements as they were.
C20_DeleteLotFrame ==
    [][last'.op = "delete_lot"
       => LET l == last'.lot_id IN
          /\ l \notin DOMAIN stock_lots'
          /\ DOMAIN stock_lots' = DOMAIN stock_lots \ {l}
          /\ \A i \in DOMAIN stock_lots' : stock_lots'[i] = stock_lots[i]
          /\ movements' = SelectSeq(movements, LAMBDA m : m.lot_id # l)]_vars

\* delete_lot removed a live lot with its IN and OUT movements and left
\* another lot with its movement
C20_Witness ==
    /\ last.op = "delete_lot"
    /\ last.row # None
    /\ last.removed >= 2
    /\ stock_lots # <<>>
    /\ movements # <<>>

\* C13: /location/delete with a move-to destination. When the freezer flags
\* of source and destination differ, the source's lots stay where they are,
\* neither relocated nor removed; when the flags are equal, every lot of the
\* source ends up in the destination with its quantity unchanged.
C13_FreezerMoveGuard ==
    [][(/\ last'.op = "location_delete"
        /\ last'.location_id \in DOMAIN locations
        /\ last'.move_to \in DOMAIN locations
        /\ last'.move_to # last'.location_id)
       => LET src == last'.location_id
              dest == last'.move_to
              lots == {i \in DOMAIN stock_lots : stock_lots[i].location_id = src}
          IN IF locations[src].is_freezer # locations[dest].is_freezer
             THEN /\ last'.move_invalid
                  /\ \A i \in lots :
                        i \in DOMAIN stock_lots' /\ stock_lots'[i] = stock_lots[i]
             ELSE \A i \in lots :
                     /\ i \in DOMAIN stock_lots'
                     /\ stock_lots'[i].location_id = dest
                     /\ stock_lots'[i].qty = stock_lots[i].qty]_vars

C15_LotAndMovementTogether ==
    [][(stock_lots' # stock_lots \/ movements' # movements)
       => \E c \in Conns :
             LET k == conn[c]
                 n == Len(movements)
             IN /\ k.pc = "commit"
                /\ conn'[c].pc = "closed"
                /\ Len(movements') = n + 1
                /\ SubSeq(movements', 1, n) = movements
                /\ movements'[n + 1].lot_id = k.lot_id
                /\ IF k.op = "consume_lot"
                   THEN \/ k.lot_id \notin DOMAIN stock_lots'
                        \/ stock_lots'[k.lot_id].qty = k.row - k.qty
                   ELSE /\ k.lot_id \notin DOMAIN stock_lots
                        /\ k.lot_id \in DOMAIN stock_lots'
                        /\ stock_lots'[k.lot_id].qty = k.qty]_vars

\* the process died between a lot statement and its movement statement while
\* lots and movements committed earlier are in the tables
C15_Witness ==
    /\ last.op = "crash"
    /\ "movement" \in last.pcs
    /\ stock_lots # <<>>
    /\ Len(movements) >= 2

\* ---- retention thresholds
\* the thresholds a reader gets at this moment
StoredThresholds == get_retention_thresholds(settings_json, os_env)

\* C21: the thresholds in use satisfy critical <= warning whichever source
\* they come from, settings.json or the environment: the constants of
\* config and the pair the summary reads.
C21_CriticalAtMostWarning ==
    /\ config.CRITICAL_DAYS <= config.WARNING_DAYS
    /\ last.op = "ha_summary" => last.crit_days <= last.warn_days

\* C22: every classification uses the thresholds that are stored at that
\* moment, so a change of the stored thresholds reaches every later
\* classification without a restart.
C22_ThresholdsReadFresh ==
    [][last'.op \in {"lots_page", "ha_summary"}
       => <<last'.warn_days, last'.crit_days>> = StoredThresholds']_vars

\* C27: a successful POST /settings/save, whose payload has no retention
\* key, leaves the stored retention thresholds as they were.
C27_SaveKeepsThresholds ==
    [][(last'.op = "settings_save" /\ ~last'.raised)
       => StoredThresholds' = StoredThresholds]_vars

\* ---- add_product
NameMatches(name) == {i \in DOMAIN products : products[i].name = name}

BarcodeMatches(barcode) ==
    {i \in DOMAIN products :
        barcode \notin {None, EmptyStr} /\ products[i].barcode = barcode}

\* C23: add_product with a name or a barcode that a product already has
\* creates no row and returns that product's id, the id of the name's
\* product when the name and the barcode belong to different products.
C23_AddProductReturnsExisting ==
    [][(/\ last'.op = "add_product"
        /\ NameMatches(last'.name) \cup BarcodeMatches(last'.barcode) # {})
       => /\ products' = products
          /\ seq' = seq
          /\ IF NameMatches(last'.name) # {}
             THEN {last'.ret} = NameMatches(last'.name)
             ELSE {last'.ret} = BarcodeMatches(last'.barcode)]_vars

\* the name is one product's, the barcode another's, and the call returned
\* the first
C23_Witness ==
    /\ last.op = "add_product"
    /\ NameMatches(last.name) # {}
    /\ BarcodeMatches(last.barcode) # {}
    /\ NameMatches(last.name) # BarcodeMatches(last.barcode)
    /\ {last.ret} = NameMatches(last.name)

\* ---- list_product_insights
\* the latest ts among the movements of the given type of every lot product
\* p ever had; None when there is none
LatestMovement(p, type) ==
    LET ts == {movements[k].ts : k \in
                  {k \in DOMAIN movements :
                      /\ movements[k].type = type
                      /\ lot_product[movements[k].lot_id] = p}}
    IN IF ts = {} THEN None ELSE CHOOSE t \in ts : \A u \in ts : u <= t

\* C24: last_in and last_out of a product are the latest timestamps among
\* the IN and the OUT movements of all the lots the product ever had, lots
\* deleted by consumption included.
C24_InsightsCoverDeletedLots ==
    [][last'.op = "list_product_insights"
       => \A p \in DOMAIN products :
             /\ last'.ret[p].last_in = LatestMovement(p, "IN")
             /\ last'.ret[p].last_out = LatestMovement(p, "OUT")]_vars

\* ---- concurrent consume_lot calls
LotIn(i) ==
    SumQty(SelectSeq(movements, LAMBDA m : m.lot_id = i /\ m.type = "IN"))

LotOut(i) ==
    SumQty(SelectSeq(movements, LAMBDA m : m.lot_id = i /\ m.type = "OUT"))

\* C25: consume_lot calls that interleave on one lot leave what some serial
\* order leaves: once no call is under way, what has been removed from each
\* lot is the sum of its OUT movements, no decrement lost.
C25_ConsumeSerializable ==
    (\A c \in Conns : conn[c].pc = "closed")
    => \A i \in DOMAIN lot_product :
          LotIn(i) - (IF i \in DOMAIN stock_lots THEN stock_lots[i].qty ELSE 0)
          = LotOut(i)

\* ---- references
\* C26: in every reachable state each lot's product_id names a row of
\* products and its location_id a row of locations; so do the lots that a
\* /location/delete with a move-to target has relocated.
C26_LotsReferToExistingRows ==
    \A i \in DOMAIN stock_lots :
       /\ stock_lots[i].product_id \in DOMAIN products
       /\ stock_lots[i].location_id \in DOMAIN locations

\* ---- the Home Assistant summary
\* the lots that status_for puts in the given class
LotsOfStatus(status, warn_days, crit_days) ==
    {i \in DOMAIN stock_lots :
        status_for(stock_lots[i].best_before, warn_days, crit_days, today) = status}

\* C28: for the same thresholds and the same lots, urgent of the summary is
\* the number of lots status_for calls red and soon the number it calls
\* yellow.
C28_SummaryCountsAsStatusFor ==
    [][last'.op = "ha_summary"
       => /\ last'.urgent =
               Cardinality(LotsOfStatus("red", last'.warn_days, last'.crit_days))
          /\ last'.soon =
               Cardinality(LotsOfStatus("yellow", last'.warn_days, last'.crit_days))]_vars

\* ---- product_adjust
\* what a step takes from lot i
Removed(i) ==
    stock_lots[i].qty - (IF i \in DOMAIN stock_lots' THEN stock_lots'[i].qty ELSE 0)

\* lot i is listed before lot j: nearer best_before first, undated last
ListedBefore(i, j) ==
    LET bi == stock_lots[i].best_before
        bj == stock_lots[j].best_before
    IN ~IsNull(bi) /\ (IsNull(bj) \/ bi < bj)

\* C30: product_adjust with a negative delta of magnitude q on a product
\* whose lots total T takes exactly min(q, T) from them, recorded as OUT
\* movements, empties a lot before it touches a later one of list_lots, and
\* leaves the lots of every other product as they were.
C30_AdjustDrainsInOrder ==
    [][(/\ last'.op = "product_adjust"
        /\ last'.error = NULL
        /\ last'.qty < 0)
       => \E p \in ProductIdInputs :
             /\ p = last'.product_id
             /\ LiveQty(p)' = LiveQty(p) - Min(0 - last'.qty, LiveQty(p))
             /\ MovedQty(p, "OUT")' - MovedQty(p, "OUT") = Min(0 - last'.qty, LiveQty(p))
             /\ \A i \in LotsOf(p), j \in LotsOf(p) :
                   (ListedBefore(i, j) /\ Removed(j) > 0)
                   => i \notin DOMAIN stock_lots'
             /\ \A i \in DOMAIN stock_lots \ LotsOf(p) :
                   /\ i \in DOMAIN stock_lots'
                   /\ stock_lots'[i] = stock_lots[i]]_vars

====
